---------------------------- MODULE Spec2Model ----------------------------
(***************************************************************************)
(* Straight-edge scanline primitives of amicola (valora):                  *)
(* LineSegment, RasterableLineSegment and the Curve operations on them.    *)
(*                                                                         *)
(* f32 values are modelled as exact numbers of the form (n/d)*sqrt(r),     *)
(* r squarefree, together with NaN and the two infinities, so that norm(), *)
(* normalize() and the divisions of the source are computed as written,    *)
(* without rounding.  Rounding error and signed zero are not modelled.     *)
(* The `normal` field (cos/sin of the direction) is not modelled.          *)
(***************************************************************************)
EXTENDS Integers, FiniteSets, Sequences, TLC

(***************************************************************************)
(* Bounds of the explored inputs.                                          *)
(***************************************************************************)
\* endpoints are drawn from the grid 0..MaxCoord x 0..MaxCoord
MaxCoord == 2
\* translate(): direction components are drawn from 0..MaxDir
MaxDir == 1
\* translate(): amount is drawn from -MaxAmount..MaxAmount
MaxAmount == 1

(***************************************************************************)
(* Numbers.                                                                *)
(***************************************************************************)
Abs(i) == IF i < 0 THEN -i ELSE i

Sgn(i) == IF i < 0 THEN -1 ELSE IF i = 0 THEN 0 ELSE 1

RECURSIVE GCD(_, _)
GCD(a, b) == IF b = 0 THEN a ELSE GCD(b, a % b)

\* the largest s with s*s dividing n (n >= 1), searched from s upward
RECURSIVE SqPartFrom(_, _)
SqPartFrom(n, s) ==
    IF s * s > n THEN 1
    ELSE IF n % (s * s) = 0 THEN s * SqPartFrom(n \div (s * s), s)
    ELSE SqPartFrom(n, s + 1)

SqPart(n) == SqPartFrom(n, 2)

NaN == [k |-> "nan", n |-> 0, d |-> 1, r |-> 1]

\* a value outside the representation (a sum of incommensurable surds)
Irr == [k |-> "irr", n |-> 0, d |-> 1, r |-> 1]

Inf(s) == [k |-> "inf", n |-> s, d |-> 1, r |-> 1]

Zero == [k |-> "num", n |-> 0, d |-> 1, r |-> 1]

\* (n/d)*sqrt(r) in canonical form; d > 0, r >= 1 squarefree
Mk(n, d, r) ==
    IF n = 0 THEN Zero
    ELSE LET g == GCD(Abs(n), d)
         IN  [k |-> "num", n |-> n \div g, d |-> d \div g, r |-> r]

Rat(n, d) == Mk(n, d, 1)

Int2F(i) == Mk(i, 1, 1)

IsNum(a) == a.k = "num"

IsNaN(a) == a.k = "nan"

Bad(a, b) == a.k = "irr" \/ b.k = "irr"

Neg(a) == IF a.k \in {"num", "inf"} THEN [a EXCEPT !.n = -a.n] ELSE a

Add(a, b) ==
    IF Bad(a, b) THEN Irr
    ELSE IF IsNaN(a) \/ IsNaN(b) THEN NaN
    ELSE IF a.k = "inf" /\ b.k = "inf" THEN (IF a.n = b.n THEN a ELSE NaN)
    ELSE IF a.k = "inf" THEN a
    ELSE IF b.k = "inf" THEN b
    ELSE IF a.n = 0 THEN b
    ELSE IF b.n = 0 THEN a
    ELSE IF a.r = b.r THEN Mk(a.n * b.d + b.n * a.d, a.d * b.d, a.r)
    ELSE Irr

Sub(a, b) == Add(a, Neg(b))

Mul(a, b) ==
    IF Bad(a, b) THEN Irr
    ELSE IF IsNaN(a) \/ IsNaN(b) THEN NaN
    ELSE IF a.k = "inf" \/ b.k = "inf"
         THEN (IF a.n = 0 \/ b.n = 0 THEN NaN ELSE Inf(Sgn(a.n) * Sgn(b.n)))
    ELSE LET g == GCD(a.r, b.r)
         IN  Mk(a.n * b.n * g, a.d * b.d, (a.r \div g) * (b.r \div g))

\* 1/a for a finite, nonzero a
Recip(a) == Mk(Sgn(a.n) * a.d, Abs(a.n) * a.r, a.r)

Div(a, b) ==
    IF Bad(a, b) THEN Irr
    ELSE IF IsNaN(a) \/ IsNaN(b) THEN NaN
    ELSE IF a.k = "inf"
         THEN (IF b.k = "inf" THEN NaN
               ELSE Inf(a.n * (IF b.n < 0 THEN -1 ELSE 1)))
    ELSE IF b.k = "inf" THEN Zero
    ELSE IF b.n = 0 THEN (IF a.n = 0 THEN NaN ELSE Inf(Sgn(a.n)))
    ELSE Mul(a, Recip(b))

Sqrt(a) ==
    IF a.k = "irr" THEN Irr
    ELSE IF IsNaN(a) THEN NaN
    ELSE IF a.n < 0 THEN NaN
    ELSE IF a.k = "inf" THEN a
    ELSE IF a.n = 0 THEN Zero
    ELSE IF a.r # 1 THEN Irr
    ELSE LET sn == SqPart(a.n)
             sd == SqPart(a.d)
             rn == a.n \div (sn * sn)
             rd == a.d \div (sd * sd)
         IN  Mk(sn, sd * rd, rn * rd)

\* a < b for finite a, b
NumLt(a, b) ==
    LET sa == Sgn(a.n)
        sb == Sgn(b.n)
        \* a^2 < b^2
        sqlt == a.n * a.n * a.r * b.d * b.d < b.n * b.n * b.r * a.d * a.d
        sqgt == a.n * a.n * a.r * b.d * b.d > b.n * b.n * b.r * a.d * a.d
    IN  IF sa # sb THEN sa < sb
        ELSE IF sa >= 0 THEN sqlt
        ELSE sqgt

\* the f32 comparisons: false as soon as one side is NaN
FEq(a, b) == a.k \in {"num", "inf"} /\ a = b

FLt(a, b) ==
    /\ a.k \in {"num", "inf"}
    /\ b.k \in {"num", "inf"}
    /\ a # b
    /\ \/ (a.k = "inf" /\ a.n < 0)
       \/ (b.k = "inf" /\ b.n > 0)
       \/ (IsNum(a) /\ IsNum(b) /\ NumLt(a, b))

FLe(a, b) == FEq(a, b) \/ FLt(a, b)

(***************************************************************************)
(* V2.                                                                     *)
(***************************************************************************)
V2(x, y) == [x |-> x, y |-> y]

VAdd(p, q) == V2(Add(p.x, q.x), Add(p.y, q.y))

VSub(p, q) == V2(Sub(p.x, q.x), Sub(p.y, q.y))

VScale(p, s) == V2(Mul(p.x, s), Mul(p.y, s))

VNorm(p) == Sqrt(Add(Mul(p.x, p.x), Mul(p.y, p.y)))

VNormalize(p) == V2(Div(p.x, VNorm(p)), Div(p.y, VNorm(p)))

VEq(p, q) == FEq(p.x, q.x) /\ FEq(p.y, q.y)

(***************************************************************************)
(* ext::min_max_by and ext::min_max.  `tie` decides the order when neither *)
(* key is strictly smaller (equal keys, or a NaN key).                     *)
(***************************************************************************)
min_max_by(a, b, tie) ==
    IF FLt(a.x, b.x) THEN <<a, b>>
    ELSE IF FLt(b.x, a.x) THEN <<b, a>>
    ELSE IF tie THEN <<a, b>> ELSE <<b, a>>

min_max(a, b, tie) ==
    IF FLt(a, b) THEN <<a, b>>
    ELSE IF FLt(b, a) THEN <<b, a>>
    ELSE IF tie THEN <<a, b>> ELSE <<b, a>>

(***************************************************************************)
(* Slope, Bounds, LineSegment.                                             *)
(***************************************************************************)
Vertical == [tag |-> "Vertical", m |-> Zero, b |-> Zero]

Horizontal == [tag |-> "Horizontal", m |-> Zero, b |-> Zero]

Defined(m, b) == [tag |-> "Defined", m |-> m, b |-> b]

\* Classify with the two tests in the opposite order (dy before dx)
Classify_DyFirst(left, right) ==
    LET dx == Sub(right.x, left.x)
        dy == Sub(right.y, left.y)
        m  == Div(dy, dx)
    IN  IF FEq(dy, Zero) THEN Horizontal
        ELSE IF FEq(dx, Zero) THEN Vertical
        ELSE Defined(Div(dy, dx), Sub(left.y, Mul(m, left.x)))

\* lines 63-75: the slope classification from the x-sorted endpoints
Classify(left, right) ==
    LET dx == Sub(right.x, left.x)
        dy == Sub(right.y, left.y)
        m  == Div(dy, dx)
    IN  IF FEq(dx, Zero) THEN Vertical
        ELSE IF FEq(dy, Zero) THEN Horizontal
        ELSE Defined(Div(dy, dx), Sub(left.y, Mul(m, left.x)))

\* MkBounds with top and bottom exchanged
MkBounds_TopBottomSwapped(left, right, bottom, top) ==
    [left |-> left.x, right |-> right.x, top |-> bottom, bottom |-> top]

\* lines 87-92
MkBounds(left, right, bottom, top) ==
    [left |-> left.x, right |-> right.x, top |-> top, bottom |-> bottom]

LineSegment_new(start, end, tx, ty) ==
    LET lr == min_max_by(start, end, tx)
        bt == min_max(start.y, end.y, ty)
    IN  [m      |-> Classify(lr[1], lr[2]),
         bounds |-> MkBounds(lr[1], lr[2], bt[1], bt[2]),
         start  |-> start,
         dir    |-> VNormalize(VSub(end, start)),
         length |-> VNorm(VSub(start, end))]

translate(self, dir, amount, tx, ty) ==
    LET new_start == VAdd(self.start, VScale(dir, amount))
    IN  LineSegment_new(new_start,
                        VAdd(new_start, VScale(self.dir, self.length)),
                        tx, ty)

(***************************************************************************)
(* Option<Intersection>, Option<V2>.                                       *)
(***************************************************************************)
NoIntersection == [some |-> FALSE, axis |-> Zero, t |-> Zero]

Intersection(axis, t) == [some |-> TRUE, axis |-> axis, t |-> t]

NoPoint == [some |-> FALSE, p |-> V2(Zero, Zero)]

SomePoint(p) == [some |-> TRUE, p |-> p]

(***************************************************************************)
(* impl Curve for LineSegment.                                             *)
(***************************************************************************)
\* StartT measured from the far endpoint instead of self.start
StartT_FromEnd(self, p) ==
    Div(VNorm(VSub(p, VAdd(self.start, VScale(self.dir, self.length)))),
        self.length)

\* lines 122 and 144: (p - self.start).norm() / self.length
StartT(self, p) == Div(VNorm(VSub(p, self.start)), self.length)

\* sample_y with the upper end of the range excluded
sample_y_TopExclusive(self, y) ==
    IF FLe(self.bounds.bottom, y) /\ FLt(y, self.bounds.top)
    THEN CASE self.m.tag = "Vertical" ->
                Intersection(self.bounds.right,
                             Div(Sub(y, self.bounds.bottom),
                                 Sub(self.bounds.top, self.bounds.bottom)))
           [] self.m.tag = "Horizontal" -> NoIntersection
           [] self.m.tag = "Defined" ->
                LET x == Div(Sub(y, self.m.b), self.m.m)
                IN  Intersection(x, Div(VNorm(VSub(V2(x, y), self.start)),
                                        self.length))
    ELSE NoIntersection

sample_y(self, y) ==
    IF FLe(self.bounds.bottom, y) /\ FLe(y, self.bounds.top)
    THEN CASE self.m.tag = "Vertical" ->
                Intersection(self.bounds.right,
                             Div(Sub(y, self.bounds.bottom),
                                 Sub(self.bounds.top, self.bounds.bottom)))
           [] self.m.tag = "Horizontal" -> NoIntersection
           [] self.m.tag = "Defined" ->
                LET x == Div(Sub(y, self.m.b), self.m.m)
                IN  Intersection(x, StartT(self, V2(x, y)))
    ELSE NoIntersection

\* sample_x with the intercept subtracted instead of added
sample_x_WrongIntercept(self, x) ==
    IF FLe(self.bounds.left, x) /\ FLe(x, self.bounds.right)
    THEN CASE self.m.tag = "Vertical" -> NoIntersection
           [] self.m.tag = "Horizontal" ->
                Intersection(self.bounds.bottom,
                             Div(Sub(x, self.bounds.left),
                                 Sub(self.bounds.right, self.bounds.left)))
           [] self.m.tag = "Defined" ->
                LET y == Sub(Mul(self.m.m, x), self.m.b)
                IN  Intersection(y, Div(VNorm(VSub(V2(x, y), self.start)),
                                        self.length))
    ELSE NoIntersection

sample_x(self, x) ==
    IF FLe(self.bounds.left, x) /\ FLe(x, self.bounds.right)
    THEN CASE self.m.tag = "Vertical" -> NoIntersection
           [] self.m.tag = "Horizontal" ->
                Intersection(self.bounds.bottom,
                             Div(Sub(x, self.bounds.left),
                                 Sub(self.bounds.right, self.bounds.left)))
           [] self.m.tag = "Defined" ->
                LET y == Add(Mul(self.m.m, x), self.m.b)
                IN  Intersection(y, StartT(self, V2(x, y)))
    ELSE NoIntersection

\* sample_t with t = 0 rejected
sample_t_ZeroRejected(self, t) ==
    IF FLe(t, Zero) \/ FLt(Int2F(1), t)
    THEN NoPoint
    ELSE SomePoint(VAdd(self.start, VScale(VScale(self.dir, t), self.length)))

sample_t(self, t) ==
    IF FLt(t, Zero) \/ FLt(Int2F(1), t)
    THEN NoPoint
    ELSE SomePoint(VAdd(self.start, VScale(VScale(self.dir, t), self.length)))

bounds(self) == self.bounds

bookends(self) ==
    <<self.start, VAdd(self.start, VScale(self.dir, self.length))>>

(***************************************************************************)
(* RasterableLineSegment.                                                  *)
(***************************************************************************)
\* try_from rejecting the Vertical variant instead of the Horizontal one
try_from_RejectsVertical(src) ==
    IF src.m.tag = "Vertical"
    THEN [tag |-> "Err", v |-> src]
    ELSE [tag |-> "Ok", v |-> src]

\* Result<RasterableLineSegment, HorizontalNotRasterable>
try_from(src) ==
    IF src.m.tag = "Horizontal"
    THEN [tag |-> "Err", v |-> src]
    ELSE [tag |-> "Ok", v |-> src]

\* Option<RasterableLineSegment>: Result::ok() of the conversion
RasterableLineSegment_new(start, end, tx, ty) ==
    LET r == try_from(LineSegment_new(start, end, tx, ty))
    IN  [some |-> r.tag = "Ok", v |-> r.v]

(***************************************************************************)
(* The explored inputs.                                                    *)
(***************************************************************************)
Coords == 0..MaxCoord

Points == {V2(Int2F(x), Int2F(y)) : x \in Coords, y \in Coords}

\* probe coordinates: every half step from -1/2 to MaxCoord + 1/2
Probes == {Rat(k, 2) : k \in -1..(2 * MaxCoord + 1)}

\* parameters t: -1/2, 0, 1/4, 1/2, 1, 3/2
Params == {Rat(-1, 2), Zero, Rat(1, 4), Rat(1, 2), Int2F(1), Rat(3, 2)}

Dirs == {V2(Int2F(x), Int2F(y)) : x \in 0..MaxDir, y \in 0..MaxDir}

Amounts == {Int2F(k) : k \in -MaxAmount..MaxAmount}

(***************************************************************************)
(* State.                                                                  *)
(***************************************************************************)
VARIABLES
    start,  \* the first endpoint handed to the constructors
    end,    \* the second endpoint handed to the constructors
    seg,    \* Option<LineSegment>: the segment LineSegment::new returned
    ras,    \* the outcome of the conversion to RasterableLineSegment
    op,     \* the operation that ran last
    recv,   \* its receiver: "seg" (LineSegment) or "ras" (RasterableLineSegment)
    arg,    \* its arguments
    ret     \* its return value

vars == <<start, end, seg, ras, op, recv, arg, ret>>

NullSeg ==
    [m      |-> Vertical,
     bounds |-> [left |-> Zero, right |-> Zero, top |-> Zero, bottom |-> Zero],
     start  |-> V2(Zero, Zero),
     dir    |-> V2(Zero, Zero),
     length |-> Zero]

NoSeg == [some |-> FALSE, v |-> NullSeg]

SomeSeg(v) == [some |-> TRUE, v |-> v]

NoArg == [p |-> V2(Zero, Zero), s |-> Zero]

NoRet ==
    [inter |-> NoIntersection,
     point |-> NoPoint,
     ends  |-> <<V2(Zero, Zero), V2(Zero, Zero)>>,
     seg   |-> NoSeg]

Unset == [tag |-> "Unset", v |-> NullSeg]

\* the values an operation can be called on
Receivers ==
    {r \in {"seg"} : seg.some} \cup {r \in {"ras"} : ras.tag = "Ok"}

\* RasterableLineSegment delegates to the LineSegment it wraps (self.0)
Self(r) == IF r = "seg" THEN seg.v ELSE ras.v

\* The operations take &self and return fresh values: a call leaves nothing
\* behind that a later call could read.  Each behaviour therefore builds a
\* value, optionally converts it, and applies one operation to it.
Built == op \in {"new", "rasterable_new", "try_from"}

Init ==
    /\ start \in Points
    /\ end \in Points
    /\ seg = NoSeg
    /\ ras = Unset
    /\ op = "init"
    /\ recv = "none"
    /\ arg = NoArg
    /\ ret = NoRet

New ==
    /\ op = "init"
    /\ \E tx \in BOOLEAN, ty \in BOOLEAN :
          seg' = SomeSeg(LineSegment_new(start, end, tx, ty))
    /\ op' = "new"
    /\ UNCHANGED <<start, end, ras, recv, arg, ret>>

RasterableNew ==
    /\ op = "init"
    /\ \E tx \in BOOLEAN, ty \in BOOLEAN :
          LET r == RasterableLineSegment_new(start, end, tx, ty)
          IN  ras' = IF r.some THEN [tag |-> "Ok", v |-> r.v]
                     ELSE [tag |-> "None", v |-> NullSeg]
    /\ op' = "rasterable_new"
    /\ UNCHANGED <<start, end, seg, recv, arg, ret>>

TryFrom ==
    /\ seg.some
    /\ ras.tag = "Unset"
    /\ ras' = try_from(seg.v)
    /\ op' = "try_from"
    /\ recv' = "seg"
    /\ arg' = NoArg
    /\ ret' = NoRet
    /\ UNCHANGED <<start, end, seg>>

SampleY ==
    /\ Built
    /\ \E r \in Receivers, y \in Probes :
          /\ recv' = r
          /\ arg' = [NoArg EXCEPT !.s = y]
          /\ ret' = [NoRet EXCEPT !.inter = sample_y(Self(r), y)]
    /\ op' = "sample_y"
    /\ UNCHANGED <<start, end, seg, ras>>

SampleX ==
    /\ Built
    /\ \E r \in Receivers, x \in Probes :
          /\ recv' = r
          /\ arg' = [NoArg EXCEPT !.s = x]
          /\ ret' = [NoRet EXCEPT !.inter = sample_x(Self(r), x)]
    /\ op' = "sample_x"
    /\ UNCHANGED <<start, end, seg, ras>>

SampleT ==
    /\ Built
    /\ \E r \in Receivers, t \in Params :
          /\ recv' = r
          /\ arg' = [NoArg EXCEPT !.s = t]
          /\ ret' = [NoRet EXCEPT !.point = sample_t(Self(r), t)]
    /\ op' = "sample_t"
    /\ UNCHANGED <<start, end, seg, ras>>

Bookends ==
    /\ Built
    /\ \E r \in Receivers :
          /\ recv' = r
          /\ ret' = [NoRet EXCEPT !.ends = bookends(Self(r))]
    /\ op' = "bookends"
    /\ arg' = NoArg
    /\ UNCHANGED <<start, end, seg, ras>>

Translate ==
    /\ Built
    /\ seg.some
    /\ \E d \in Dirs, amount \in Amounts, tx \in BOOLEAN, ty \in BOOLEAN :
          /\ arg' = [p |-> d, s |-> amount]
          /\ ret' = [NoRet EXCEPT
                        !.seg = SomeSeg(translate(seg.v, d, amount, tx, ty))]
    /\ op' = "translate"
    /\ recv' = "seg"
    /\ UNCHANGED <<start, end, seg, ras>>

Next ==
    \/ New
    \/ RasterableNew
    \/ TryFrom
    \/ SampleY
    \/ SampleX
    \/ SampleT
    \/ Bookends
    \/ Translate

Spec == Init /\ [][Next]_vars

\* every number the operations produced is inside the representation
Representable ==
    /\ ret.inter.axis.k # "irr" /\ ret.inter.t.k # "irr"
    /\ ret.point.p.x.k # "irr" /\ ret.point.p.y.k # "irr"
    /\ \A i \in 1..2 : ret.ends[i].x.k # "irr" /\ ret.ends[i].y.k # "irr"
    /\ \A s \in {seg.v, ret.seg.v, ras.v} :
          /\ s.m.m.k # "irr" /\ s.m.b.k # "irr"
          /\ s.dir.x.k # "irr" /\ s.dir.y.k # "irr" /\ s.length.k # "irr"
          /\ s.bounds.left.k # "irr" /\ s.bounds.right.k # "irr"
          /\ s.bounds.top.k # "irr" /\ s.bounds.bottom.k # "irr"

(***************************************************************************)
(* Vocabulary of the properties, in terms of the constructor inputs.       *)
(***************************************************************************)
One == Int2F(1)

FAbs(a) == IF a.n < 0 THEN Neg(a) ELSE a

FMin(a, b) == IF FLe(a, b) THEN a ELSE b

FMax(a, b) == IF FLe(a, b) THEN b ELSE a

Between(lo, v, hi) == FLe(lo, v) /\ FLe(v, hi)

\* the endpoints have equal y and different x
HorizontalInput == start.y = end.y /\ start.x # end.x

\* the endpoints have equal x
VerticalInput == start.x = end.x

DefinedInput == start.x # end.x /\ start.y # end.y

\* y lies between the endpoints' y coordinates, ends included
InsideY(y) == Between(FMin(start.y, end.y), y, FMax(start.y, end.y))

InsideX(x) == Between(FMin(start.x, end.x), x, FMax(start.x, end.x))

\* p lies on the line through the two endpoints
Collinear(p) ==
    Sub(Mul(Sub(end.x, start.x), Sub(p.y, start.y)),
        Mul(Sub(end.y, start.y), Sub(p.x, start.x))) = Zero

\* the receiver of the last call
Me == Self(recv)

Probed == op \in {"sample_y", "sample_x"} /\ ret.inter.some

\* the point a probe reported
Crossing ==
    IF op = "sample_y" THEN V2(ret.inter.axis, arg.s) ELSE V2(arg.s, ret.inter.axis)

(***************************************************************************)
(* C1: the conversion to RasterableLineSegment fails exactly for           *)
(* Horizontal segments, i.e. for endpoints with equal y and different x;   *)
(* otherwise it wraps the segment unchanged.  RasterableLineSegment::new   *)
(* returns None in the same cases, so no RasterableLineSegment is          *)
(* Horizontal.                                                             *)
(***************************************************************************)
C1_ConversionRejectsExactlyHorizontal ==
    /\ (seg.some /\ ras.tag # "Unset") =>
          /\ ras.tag \in {"Ok", "Err"}
          /\ ras.tag = "Err" <=> seg.v.m.tag = "Horizontal"
          /\ ras.tag = "Err" <=> HorizontalInput
          /\ ras.tag = "Ok" => ras.v = seg.v
    /\ (~seg.some /\ ras.tag # "Unset") =>
          /\ ras.tag \in {"Ok", "None"}
          /\ ras.tag = "None" <=> HorizontalInput
    /\ ras.tag = "Ok" => ras.v.m.tag # "Horizontal"

C1_Witness == seg.some /\ ras.tag = "Err" /\ HorizontalInput

(***************************************************************************)
(* C2: sample_y(y) returns an Intersection iff the segment is not          *)
(* Horizontal and bottom <= y <= top, both ends included; sample_x(x)      *)
(* returns one iff the segment is not Vertical and left <= x <= right.  A  *)
(* RasterableLineSegment answers every y inside its vertical bounds.       *)
(***************************************************************************)
C2_ProbeAcceptance ==
    /\ op = "sample_y" =>
          /\ ret.inter.some <=>
                /\ Me.m.tag # "Horizontal"
                /\ Between(Me.bounds.bottom, arg.s, Me.bounds.top)
          /\ ret.inter.some <=> (~HorizontalInput /\ InsideY(arg.s))
          /\ (recv = "ras" /\ InsideY(arg.s)) => ret.inter.some
    /\ op = "sample_x" =>
          /\ ret.inter.some <=>
                /\ Me.m.tag # "Vertical"
                /\ Between(Me.bounds.left, arg.s, Me.bounds.right)
          /\ ret.inter.some <=> (~VerticalInput /\ InsideX(arg.s))

C2_Witness ==
    /\ op = "sample_y"
    /\ recv = "ras"
    /\ start.y # end.y
    /\ arg.s = Me.bounds.top
    /\ ret.inter.some

(***************************************************************************)
(* C3: the Bounds of LineSegment::new(start, end) are the minima and       *)
(* maxima of the endpoints' coordinates, in either order of the endpoints: *)
(* left <= right, bottom <= top, and both endpoints lie inside.            *)
(***************************************************************************)
C3_BoundsAreMinMax ==
    seg.some =>
        LET b == bounds(seg.v)
        IN  /\ b.left = FMin(start.x, end.x)
            /\ b.right = FMax(start.x, end.x)
            /\ b.bottom = FMin(start.y, end.y)
            /\ b.top = FMax(start.y, end.y)
            /\ FLe(b.left, b.right)
            /\ FLe(b.bottom, b.top)
            /\ \A p \in {start, end} :
                  Between(b.left, p.x, b.right) /\ Between(b.bottom, p.y, b.top)

C3_Witness ==
    /\ seg.some
    /\ FLt(end.x, start.x)
    /\ FLt(start.y, end.y)
    /\ seg.v.bounds.left = end.x
    /\ seg.v.bounds.top = end.y

(***************************************************************************)
(* C4: the slope is Vertical iff x1 = x2 (coincident endpoints included),  *)
(* Horizontal iff x1 # x2 and y1 = y2, and otherwise Defined{m, b} with    *)
(* m = (y2 - y1)/(x2 - x1) and b = y1 - m*x1; swapping the endpoints gives *)
(* the same slope and the same Bounds.                                     *)
(***************************************************************************)
C4_SlopeClassification ==
    seg.some =>
        LET s == seg.v.m
            m == Div(Sub(end.y, start.y), Sub(end.x, start.x))
        IN  /\ s.tag = "Vertical" <=> VerticalInput
            /\ s.tag = "Horizontal" <=> HorizontalInput
            /\ s.tag = "Defined" <=> DefinedInput
            /\ s.tag = "Defined" =>
                  /\ s.m = m
                  /\ s.b = Sub(start.y, Mul(m, start.x))
                  /\ IsNum(s.m) /\ IsNum(s.b)
            /\ \A tx \in BOOLEAN, ty \in BOOLEAN :
                  LET swapped == LineSegment_new(end, start, tx, ty)
                  IN  swapped.m = s /\ swapped.bounds = seg.v.bounds

C4_Witness ==
    /\ seg.some
    /\ seg.v.m.tag = "Defined"
    /\ FLt(end.x, start.x)
    /\ seg.v.m.m # One

(***************************************************************************)
(* C5: for distinct endpoints bookends() is (start, end) in the caller's   *)
(* order, sample_t(0) is the first bookend, sample_t(1) the second,        *)
(* sample_t(t) is a point for every t in [0, 1] and nothing otherwise.     *)
(***************************************************************************)
C5_SampleTAndBookends ==
    start # end =>
        /\ op = "bookends" => ret.ends = <<start, end>>
        /\ op = "sample_t" =>
              /\ Between(Zero, arg.s, One) <=> ret.point.some
              /\ (FLt(arg.s, Zero) \/ FLt(One, arg.s)) => ~ret.point.some
              /\ arg.s = Zero =>
                    ret.point.p = bookends(Me)[1] /\ ret.point.p = start
              /\ arg.s = One =>
                    ret.point.p = bookends(Me)[2] /\ ret.point.p = end

C5_Witness ==
    /\ start # end
    /\ op = "sample_t"
    /\ arg.s = One
    /\ ret.point.some
    /\ ret.point.p = end

(***************************************************************************)
(* C6: every crossing a probe reports lies on the segment: it is collinear *)
(* with the endpoints and inside the Bounds; on a Defined segment          *)
(* y = m*x + b, on a Vertical one the axis is x1, on a Horizontal one y1.  *)
(***************************************************************************)
C6_CrossingOnSegment ==
    Probed =>
        /\ Collinear(Crossing)
        /\ Between(Me.bounds.left, Crossing.x, Me.bounds.right)
        /\ Between(Me.bounds.bottom, Crossing.y, Me.bounds.top)
        /\ InsideX(Crossing.x) /\ InsideY(Crossing.y)
        /\ Me.m.tag = "Defined" =>
              Crossing.y = Add(Mul(Me.m.m, Crossing.x), Me.m.b)
        /\ (op = "sample_y" /\ Me.m.tag = "Vertical") => ret.inter.axis = start.x
        /\ (op = "sample_x" /\ Me.m.tag = "Horizontal") => ret.inter.axis = start.y

C6_Witness ==
    /\ Probed
    /\ op = "sample_y"
    /\ Me.m.tag = "Defined"
    /\ Me.m.m \notin {One, Neg(One)}
    /\ FLt(Me.bounds.bottom, arg.s)
    /\ FLt(arg.s, Me.bounds.top)

(***************************************************************************)
(* C7: the t of every Intersection a probe returns is a number with        *)
(* 0 <= t <= 1, for every constructible segment, zero-length included.     *)
(***************************************************************************)
C7_TWellDefined ==
    Probed => IsNum(ret.inter.t) /\ Between(Zero, ret.inter.t, One)

\* the same, for segments with distinct endpoints
C7_TWellDefinedDistinct ==
    (Probed /\ start # end) => IsNum(ret.inter.t) /\ Between(Zero, ret.inter.t, One)

(***************************************************************************)
(* C8: for distinct endpoints the t of an Intersection is the position     *)
(* sample_t uses: sample_t(t) is the crossing point, so a probe through    *)
(* start has t = 0 and a probe through end has t = 1.                      *)
(***************************************************************************)
C8_TConsistentWithSampleT ==
    (Probed /\ start # end) =>
        /\ sample_t(Me, ret.inter.t) = SomePoint(Crossing)
        /\ Crossing = start => ret.inter.t = Zero
        /\ Crossing = end => ret.inter.t = One

\* the same, for Defined segments only
C8_TConsistentDefined ==
    (Probed /\ Me.m.tag = "Defined") =>
        sample_t(Me, ret.inter.t) = SomePoint(Crossing)

(***************************************************************************)
(* C9: translate(direction, amount) returns a segment whose endpoints are  *)
(* the original ones shifted by direction*amount, with the same dir,       *)
(* length and slope variant (and m), and the Bounds shifted.               *)
(***************************************************************************)
Shifted(p) == VAdd(p, VScale(arg.p, arg.s))

TranslateShifts ==
    LET n == ret.seg.v
        o == seg.v
        d == VScale(arg.p, arg.s)
    IN  /\ VEq(n.start, Shifted(start))
        /\ VEq(bookends(n)[2], Shifted(end))
        /\ VEq(n.dir, o.dir)
        /\ FEq(n.length, o.length)
        /\ n.m.tag = o.m.tag
        /\ o.m.tag = "Defined" => FEq(n.m.m, o.m.m)
        /\ FEq(n.bounds.left, Add(o.bounds.left, d.x))
        /\ FEq(n.bounds.right, Add(o.bounds.right, d.x))
        /\ FEq(n.bounds.bottom, Add(o.bounds.bottom, d.y))
        /\ FEq(n.bounds.top, Add(o.bounds.top, d.y))

C9_TranslateShifts == op = "translate" => TranslateShifts

\* the same, for segments with distinct endpoints
C9_TranslateShiftsDistinct == (op = "translate" /\ start # end) => TranslateShifts

(***************************************************************************)
(* C10: on a Defined segment, in either endpoint order, the t of a probe   *)
(* is measured from start: 0 at start, 1 at end, and in between            *)
(* |y - start.y| / |end.y - start.y| (for sample_x, the same in x).        *)
(***************************************************************************)
C10_DefinedTFromStart ==
    (Probed /\ Me.m.tag = "Defined") =>
        /\ op = "sample_y" =>
              /\ ret.inter.t =
                    Div(FAbs(Sub(arg.s, start.y)), FAbs(Sub(end.y, start.y)))
              /\ arg.s = start.y => ret.inter = Intersection(start.x, Zero)
              /\ arg.s = end.y => ret.inter = Intersection(end.x, One)
        /\ op = "sample_x" =>
              /\ ret.inter.t =
                    Div(FAbs(Sub(arg.s, start.x)), FAbs(Sub(end.x, start.x)))
              /\ arg.s = start.x => ret.inter = Intersection(start.y, Zero)
              /\ arg.s = end.x => ret.inter = Intersection(end.y, One)
        /\ ret.inter.t =
              Div(VNorm(VSub(Crossing, start)), VNorm(VSub(end, start)))

C10_Witness ==
    /\ Probed
    /\ op = "sample_y"
    /\ Me.m.tag = "Defined"
    /\ FLt(end.x, start.x)
    /\ FLt(end.y, start.y)
    /\ arg.s = start.y
    /\ ret.inter.t = Zero

=============================================================================
